---------------------------- MODULE Spec2Model ----------------------------
(* A model of the Tetris board mechanics of src/tetris/board.py, the piece  *)
(* catalog of src/tetris/shapes.py and the game loop of                    *)
(* src/tetris/engine.py.  The Board's and the Game's fields are the        *)
(* variables; every public method is an operator on a Board record,        *)
(* translated from its code, and an action that applies it and records the *)
(* call and what it returned in `last`.                                    *)
EXTENDS Integers, Sequences, FiniteSets, TLC

(* ----------------------------------------------------------------------- *)
(* Bounds of the model.  Board(width, height) takes its dimensions as       *)
(* constructor arguments; the model uses a small board.                     *)
(* ----------------------------------------------------------------------- *)
width == 4

height == 4

\* the caller makes at most MaxCalls calls of the Board's methods; at most
\* MaxLoggedCalls in the specifications that record more of each call
\* (SpecArgs, SpecRetry)
MaxCalls == 6

MaxLoggedCalls == 5

\* in a game (SpecGame), the player presses at most MaxInputs keys and the
\* game is followed until MaxPieces pieces have been locked
MaxInputs == 2

MaxPieces == 2

\* the arguments the callers pass to move(dx, dy) and rotate(delta)
DX == {-1, 0, 1}

DY == {-1, 0, 1}

DELTA == {-1, 1}

(* ----------------------------------------------------------------------- *)
(* shapes.py: the catalog.  A tetromino is its name; Rotations gives its    *)
(* rotation grids, rows top to bottom, exactly as written in the source.    *)
(* ----------------------------------------------------------------------- *)
Rotations ==
  "I" :> << << <<0,0,0,0>>, <<1,1,1,1>>, <<0,0,0,0>>, <<0,0,0,0>> >>,
            << <<0,1,0,0>>, <<0,1,0,0>>, <<0,1,0,0>>, <<0,1,0,0>> >> >> @@
  "O" :> << << <<1,1>>, <<1,1>> >> >> @@
  "T" :> << << <<0,1,0>>, <<1,1,1>>, <<0,0,0>> >>,
            << <<0,1,0>>, <<0,1,1>>, <<0,1,0>> >>,
            << <<0,0,0>>, <<1,1,1>>, <<0,1,0>> >>,
            << <<0,1,0>>, <<1,1,0>>, <<0,1,0>> >> >> @@
  "S" :> << << <<0,1,1>>, <<1,1,0>>, <<0,0,0>> >>,
            << <<0,1,0>>, <<0,1,1>>, <<0,0,1>> >> >> @@
  "Z" :> << << <<1,1,0>>, <<0,1,1>>, <<0,0,0>> >>,
            << <<0,0,1>>, <<0,1,1>>, <<0,1,0>> >> >> @@
  "J" :> << << <<1,0,0>>, <<1,1,1>>, <<0,0,0>> >>,
            << <<0,1,1>>, <<0,1,0>>, <<0,1,0>> >>,
            << <<0,0,0>>, <<1,1,1>>, <<0,0,1>> >>,
            << <<0,1,0>>, <<0,1,0>>, <<1,1,0>> >> >> @@
  "L" :> << << <<0,0,1>>, <<1,1,1>>, <<0,0,0>> >>,
            << <<0,1,0>>, <<0,1,0>>, <<0,1,1>> >>,
            << <<0,0,0>>, <<1,1,1>>, <<1,0,0>> >>,
            << <<1,1,0>>, <<0,1,0>>, <<0,1,0>> >> >>

\* the names of the catalog entries, the values random.choice draws from
TETROMINOES == {"I", "O", "T", "S", "Z", "J", "L"}

\* Tetromino.rotated(index): the rotation grid at index, modulo the count
tetromino_rotated(t, index) == Rotations[t][(index % Len(Rotations[t])) + 1]

\* iter_cells(grid): the (x, y) of the filled cells of a rotation grid
iter_cells(g) ==
  { c \in (0 .. Len(g[1]) - 1) \X (0 .. Len(g) - 1) : g[c[2] + 1][c[1] + 1] # 0 }

(* ----------------------------------------------------------------------- *)
(* board.py: FallingPiece.  None is the absent piece.                       *)
(* ----------------------------------------------------------------------- *)
None == [tetromino |-> "None", rotation |-> 0, x |-> 0, y |-> 0]

FallingPiece(t, r, px, py) == [tetromino |-> t, rotation |-> r, x |-> px, y |-> py]

\* iter_cells of every rotation grid of the catalog, computed once
ShapeCells ==
  [t \in TETROMINOES |->
     [i \in 1 .. Len(Rotations[t]) |-> iter_cells(Rotations[t][i])]]

\* FallingPiece.cells(): iter_cells(self.tetromino.rotated(self.rotation)),
\* each offset by (x, y)
cells(p) ==
  { <<p.x + c[1], p.y + c[2]>> :
      c \in ShapeCells[p.tetromino][(p.rotation % Len(Rotations[p.tetromino])) + 1] }

\* FallingPiece.rotated(delta)
rotated(p, delta) ==
  [p EXCEPT !.rotation = (p.rotation + delta) % Len(Rotations[p.tetromino])]

\* FallingPiece.moved(dx, dy)
moved(p, dx, dy) == [p EXCEPT !.x = p.x + dx, !.y = p.y + dy]

(* ----------------------------------------------------------------------- *)
(* board.py: Board.  A Board value is a record of its fields; grid is the   *)
(* sequence of rows (row 0 of the code is grid[1]), each a sequence of 0/1.  *)
(* ----------------------------------------------------------------------- *)
EmptyRow == [x \in 1 .. width |-> 0]

EmptyGrid == [y \in 1 .. height |-> EmptyRow]

\* self.grid[y][x]
Cell(g, x, y) == g[y + 1][x + 1]

\* Board.is_valid_position(piece)
is_valid_position(b, piece) ==
  \A c \in cells(piece) :
    /\ ~(c[1] < 0 \/ c[1] >= width \/ c[2] < 0 \/ c[2] >= height)
    /\ Cell(b.grid, c[1], c[2]) = 0

\* all(row)
RowFull(row) == \A x \in 1 .. Len(row) : row[x] # 0

RECURSIVE PadTop(_)
\* while len(new_grid) < self.height: new_grid.insert(0, [0] * width)
PadTop(g) == IF Len(g) < height THEN PadTop(<<EmptyRow>> \o g) ELSE g

\* clear_lines dropping every row that holds a cell: any(row) for all(row)
clear_lines_any(b) ==
  LET new_grid == SelectSeq(b.grid, LAMBDA row : \A x \in 1 .. Len(row) : row[x] = 0)
      cleared  == height - Len(new_grid)
  IN  [board |-> [b EXCEPT !.grid = PadTop(new_grid)], ret |-> cleared]

\* clear_lines putting the fresh rows at the bottom: append for insert(0, ..)
clear_lines_pad_bottom(b) ==
  LET new_grid == SelectSeq(b.grid, LAMBDA row : ~RowFull(row))
      cleared  == height - Len(new_grid)
  IN  [board |-> [b EXCEPT !.grid = new_grid \o [y \in 1 .. cleared |-> EmptyRow]],
       ret |-> cleared]

\* clear_lines with the operands of the subtraction exchanged
clear_lines_swapped(b) ==
  LET new_grid == SelectSeq(b.grid, LAMBDA row : ~RowFull(row))
      cleared  == Len(new_grid) - height
  IN  [board |-> [b EXCEPT !.grid = PadTop(new_grid)], ret |-> cleared]

\* Board.clear_lines(): the new grid and the number of rows cleared
clear_lines(b) ==
  LET new_grid == SelectSeq(b.grid, LAMBDA row : ~RowFull(row))
      cleared  == height - Len(new_grid)
  IN  [board |-> [b EXCEPT !.grid = PadTop(new_grid)], ret |-> cleared]

\* calculate_score with a table that has no entry for four lines
calculate_score_no_tetris(b, lines) ==
  (CASE lines = 1 -> 100
     [] lines = 2 -> 300
     [] lines = 3 -> 500
     [] OTHER -> 0) * b.level

\* Board.calculate_score(lines)
calculate_score(b, lines) ==
  (CASE lines = 1 -> 100
     [] lines = 2 -> 300
     [] lines = 3 -> 500
     [] lines = 4 -> 800
     [] OTHER -> 0) * b.level

\* lock_piece without the call of clear_lines
lock_piece_no_clear(b) ==
  IF b.current = None THEN b
  ELSE
    LET cs == cells(b.current)
        written == [y \in 1 .. height |-> [x \in 1 .. width |->
                      IF <<x - 1, y - 1>> \in cs THEN 1 ELSE b.grid[y][x]]]
    IN  [b EXCEPT !.grid = written, !.current = None]

\* lock_piece recomputing the level before it adds the score
lock_piece_level_first(b) ==
  IF b.current = None THEN b
  ELSE
    LET cs == cells(b.current)
        written == [y \in 1 .. height |-> [x \in 1 .. width |->
                      IF <<x - 1, y - 1>> \in cs THEN 1 ELSE b.grid[y][x]]]
        b1 == [b EXCEPT !.grid = written, !.current = None]
        cl == clear_lines(b1)
        b2 == cl.board
        cleared == cl.ret
    IN  IF cleared # 0
        THEN LET b3 == [b2 EXCEPT !.lines_cleared = b2.lines_cleared + cleared]
                 b4 == [b3 EXCEPT !.level = (b3.lines_cleared \div 10) + 1]
             IN  [b4 EXCEPT !.score = b4.score + calculate_score(b4, cleared)]
        ELSE b2

\* lock_piece raising the level by one at every clear
lock_piece_level_per_clear(b) ==
  IF b.current = None THEN b
  ELSE
    LET cs == cells(b.current)
        written == [y \in 1 .. height |-> [x \in 1 .. width |->
                      IF <<x - 1, y - 1>> \in cs THEN 1 ELSE b.grid[y][x]]]
        b1 == [b EXCEPT !.grid = written, !.current = None]
        cl == clear_lines(b1)
        b2 == cl.board
        cleared == cl.ret
    IN  IF cleared # 0
        THEN LET b3 == [b2 EXCEPT !.lines_cleared = b2.lines_cleared + cleared]
                 b4 == [b3 EXCEPT !.score = b3.score + calculate_score(b3, cleared)]
             IN  [b4 EXCEPT !.level = b4.level + 1]
        ELSE b2

\* Board.lock_piece()
lock_piece(b) ==
  IF b.current = None THEN b
  ELSE
    LET cs == cells(b.current)
        written == [y \in 1 .. height |-> [x \in 1 .. width |->
                      IF <<x - 1, y - 1>> \in cs THEN 1 ELSE b.grid[y][x]]]
        b1 == [b EXCEPT !.grid = written, !.current = None]
        cl == clear_lines(b1)
        b2 == cl.board
        cleared == cl.ret
    IN  IF cleared # 0
        THEN LET b3 == [b2 EXCEPT !.lines_cleared = b2.lines_cleared + cleared]
                 b4 == [b3 EXCEPT !.score = b3.score + calculate_score(b3, cleared)]
             IN  [b4 EXCEPT !.level = (b4.lines_cleared \div 10) + 1]
        ELSE b2

\* move locking on every blocked move that is not upward (dy >= 0)
move_lock_sideways(b, dx, dy) ==
  IF b.current = None THEN [board |-> b, ret |-> FALSE]
  ELSE
    LET m == moved(b.current, dx, dy)
    IN  IF is_valid_position(b, m)
        THEN [board |-> [b EXCEPT !.current = m], ret |-> TRUE]
        ELSE IF dy >= 0
             THEN [board |-> lock_piece(b), ret |-> FALSE]
             ELSE [board |-> b, ret |-> FALSE]

\* move answering True when there is no current piece
move_no_piece_true(b, dx, dy) ==
  IF b.current = None THEN [board |-> b, ret |-> TRUE]
  ELSE
    LET m == moved(b.current, dx, dy)
    IN  IF is_valid_position(b, m)
        THEN [board |-> [b EXCEPT !.current = m], ret |-> TRUE]
        ELSE IF dy > 0
             THEN [board |-> lock_piece(b), ret |-> FALSE]
             ELSE [board |-> b, ret |-> FALSE]

\* Board.move(dx, dy): the Board afterwards and the value returned
move(b, dx, dy) ==
  IF b.current = None THEN [board |-> b, ret |-> FALSE]
  ELSE
    LET m == moved(b.current, dx, dy)
    IN  IF is_valid_position(b, m)
        THEN [board |-> [b EXCEPT !.current = m], ret |-> TRUE]
        ELSE IF dy > 0
             THEN [board |-> lock_piece(b), ret |-> FALSE]
             ELSE [board |-> b, ret |-> FALSE]

\* rotate adopting the rotated piece without asking is_valid_position
rotate_unchecked(b, delta) ==
  IF b.current = None THEN [board |-> b, ret |-> FALSE]
  ELSE [board |-> [b EXCEPT !.current = rotated(b.current, delta)], ret |-> TRUE]

\* rotate trying the position one cell to the right when the rotation is
\* rejected (a wall kick)
rotate_kick(b, delta) ==
  IF b.current = None THEN [board |-> b, ret |-> FALSE]
  ELSE
    LET r == rotated(b.current, delta)
        k == moved(r, 1, 0)
    IN  IF is_valid_position(b, r)
        THEN [board |-> [b EXCEPT !.current = r], ret |-> TRUE]
        ELSE IF is_valid_position(b, k)
             THEN [board |-> [b EXCEPT !.current = k], ret |-> TRUE]
             ELSE [board |-> b, ret |-> FALSE]

\* Board.rotate(delta)
rotate(b, delta) ==
  IF b.current = None THEN [board |-> b, ret |-> FALSE]
  ELSE
    LET r == rotated(b.current, delta)
    IN  IF is_valid_position(b, r)
        THEN [board |-> [b EXCEPT !.current = r], ret |-> TRUE]
        ELSE [board |-> b, ret |-> FALSE]

RECURSIVE hard_drop_loop(_, _)
\* while self.move(0, 1): pass -- n counts the calls of move made so far
hard_drop_loop(b, n) ==
  LET r == move(b, 0, 1)
  IN  IF r.ret THEN hard_drop_loop(r.board, n + 1)
      ELSE [board |-> r.board, calls |-> n + 1]

\* hard_drop calling move(0, 1) once: `if` written for `while`
hard_drop_once(b) ==
  IF b.current = None THEN [board |-> b, calls |-> 0]
  ELSE [board |-> move(b, 0, 1).board, calls |-> 1]

\* Board.hard_drop(): the Board afterwards and the number of move calls made
hard_drop(b) ==
  IF b.current = None THEN [board |-> b, calls |-> 0]
  ELSE hard_drop_loop(b, 0)

RECURSIVE ghost_loop(_, _)
\* while self.is_valid_position(ghost.moved(0, 1)): ghost = ghost.moved(0, 1)
ghost_loop(b, ghost) ==
  IF is_valid_position(b, moved(ghost, 0, 1))
  THEN ghost_loop(b, moved(ghost, 0, 1))
  ELSE ghost

RECURSIVE ghost_loop_far(_, _)
\* the loop testing the ghost itself, not the position below it
ghost_loop_far(b, ghost) ==
  IF is_valid_position(b, ghost)
  THEN ghost_loop_far(b, moved(ghost, 0, 1))
  ELSE ghost

\* ghost_piece with the loop that goes one cell too far
ghost_piece_far(b) == IF b.current = None THEN None ELSE ghost_loop_far(b, b.current)

\* ghost_piece advancing by one cell at most: `if` written for `while`
ghost_piece_one_step(b) ==
  IF b.current = None THEN None
  ELSE IF is_valid_position(b, moved(b.current, 0, 1))
       THEN moved(b.current, 0, 1)
       ELSE b.current

\* Board.ghost_piece()
ghost_piece(b) == IF b.current = None THEN None ELSE ghost_loop(b, b.current)

\* as_rows writing 3 over every cell of the ghost, without the test that
\* the cell of the copy is still 0
as_rows_ghost_over(b) ==
  LET cur == IF b.current # None THEN cells(b.current) ELSE {}
      grid_copy == [y \in 1 .. height |-> [x \in 1 .. width |->
                      IF <<x - 1, y - 1>> \in cur THEN 2 ELSE b.grid[y][x]]]
      ghost == ghost_piece(b)
      gc == IF ghost # None THEN cells(ghost) ELSE {}
  IN  [y \in 1 .. height |-> [x \in 1 .. width |->
         IF <<x - 1, y - 1>> \in gc THEN 3 ELSE grid_copy[y][x]]]

\* Board.as_rows(): the copy of the grid with 2 written over the cells of
\* current, then 3 over the cells of the ghost that are still 0
as_rows(b) ==
  LET cur == IF b.current # None THEN cells(b.current) ELSE {}
      grid_copy == [y \in 1 .. height |-> [x \in 1 .. width |->
                      IF <<x - 1, y - 1>> \in cur THEN 2 ELSE b.grid[y][x]]]
      ghost == ghost_piece(b)
      gc == IF ghost # None THEN cells(ghost) ELSE {}
  IN  [y \in 1 .. height |-> [x \in 1 .. width |->
         IF <<x - 1, y - 1>> \in gc /\ grid_copy[y][x] = 0 THEN 3 ELSE grid_copy[y][x]]]

\* the piece spawn_piece builds from the tetromino it takes
spawn_position(t) ==
  FallingPiece(t, 0, (width \div 2) - (Len(tetromino_rotated(t, 0)[1]) \div 2), 0)

\* spawn_piece assigning self.current before it checks the position
spawn_piece_assign_first(b, drawn) ==
  LET piece == spawn_position(b.next_piece)
      b1 == [b EXCEPT !.next_piece = drawn, !.current = piece]
  IN  [board |-> b1, ret |-> is_valid_position(b1, piece)]

\* spawn_piece building the piece from self.next_piece after redrawing it
spawn_piece_redrawn(b, drawn) ==
  LET b1 == [b EXCEPT !.next_piece = drawn]
      piece == spawn_position(b1.next_piece)
  IN  IF is_valid_position(b1, piece)
      THEN [board |-> [b1 EXCEPT !.current = piece], ret |-> TRUE]
      ELSE [board |-> b1, ret |-> FALSE]

\* Board.spawn_piece(), with `drawn` the tetromino random.choice returns
spawn_piece(b, drawn) ==
  LET tetromino == b.next_piece
      b1 == [b EXCEPT !.next_piece = drawn]
      piece == spawn_position(tetromino)
  IN  IF is_valid_position(b1, piece)
      THEN [board |-> [b1 EXCEPT !.current = piece], ret |-> TRUE]
      ELSE [board |-> b1, ret |-> FALSE]

(* ----------------------------------------------------------------------- *)
(* The state machine: one Board, driven by one caller.                      *)
(*   ncalls  the number of calls made so far                                *)
(*   locks   the number of pieces locked so far                             *)
(*   last    the last call: the method, its arguments, what it returned     *)
(*   failed  a tetromino spawn_piece has returned False for since the grid  *)
(*           last changed, and whether spawn_piece has taken it again since; *)
(*           when there are several such tetrominoes a behaviour follows     *)
(*           any one of them                                                 *)
(* and, of the Game of engine.py that owns the Board (see SpecGame below):  *)
(*   paused, game_over, drop_interval   its fields                          *)
(*   age     the number of ticks the current piece has lived through        *)
(* What a behaviour records of the calls is the specification's choice:     *)
(*   Spec       "calls": the method and its result                          *)
(*   SpecArgs   "args": the arguments of move and rotate as well            *)
(*   SpecRetry  "retries": as Spec, and `failed`                            *)
(* ----------------------------------------------------------------------- *)
VARIABLES grid, current, next_piece, score, level, lines_cleared, locks, last, failed,
          ncalls, paused, game_over, drop_interval, age

vars ==
  <<grid, current, next_piece, score, level, lines_cleared, locks, last, failed, ncalls,
    paused, game_over, drop_interval, age>>

\* the Board as a value
Board ==
  [grid |-> grid, current |-> current, next_piece |-> next_piece,
   score |-> score, level |-> level, lines_cleared |-> lines_cleared]

\* the Board after the step
BoardNext ==
  [grid |-> grid', current |-> current', next_piece |-> next_piece',
   score |-> score', level |-> level', lines_cleared |-> lines_cleared']

\* the record of a call: the method, its arguments (dx, dy of move; rotate's
\* delta is kept in dx) and what it returned (ret for a bool, piece for a
\* FallingPiece, calls for the number of times hard_drop's loop called
\* move or, in the game loop, the number of calls of spawn_piece that
\* update_game made; cleared for the count clear_lines returns, rows for the
\* snapshot as_rows returns); key is the key handle_input read; active is
\* set by Becomes and GameBecomes
Call(op, dx, dy, ret, piece, calls) ==
  [op |-> op, dx |-> dx, dy |-> dy, ret |-> ret, piece |-> piece, calls |-> calls,
   cleared |-> 0, rows |-> <<>>, key |-> "", active |-> FALSE]

\* no failure of spawn_piece is followed
NoFailure == [tetromino |-> "None", retried |-> FALSE]

\* `failed` after spawn_piece has returned False for the tetromino t: the
\* failure followed so far (a retry, if it was a failure of t), or this one
FailedAfter(t) ==
  { IF failed.tetromino = t THEN [failed EXCEPT !.retried = TRUE] ELSE failed,
    [tetromino |-> t, retried |-> FALSE] }

\* the step leaves the Board as b, having made the call c; last.active tells
\* whether a piece was active when the call was made
Becomes(b, c, log) ==
  /\ IF log = "once" THEN ncalls = 0
     ELSE ncalls < (IF log = "calls" THEN MaxCalls ELSE MaxLoggedCalls)
  /\ ncalls' = ncalls + 1
  /\ grid' = b.grid
  /\ current' = b.current
  /\ next_piece' = b.next_piece
  /\ score' = b.score
  /\ level' = b.level
  /\ lines_cleared' = b.lines_cleared
  /\ locks' = IF current # None /\ b.current = None THEN locks + 1 ELSE locks
  /\ last' = [(IF log = "args" THEN c ELSE [c EXCEPT !.dx = 0, !.dy = 0])
                EXCEPT !.active = (current # None)]
  /\ failed' \in IF log # "retries" \/ b.grid # grid THEN {NoFailure}
                 ELSE IF c.op = "spawn_piece" /\ ~c.ret THEN FailedAfter(next_piece)
                 ELSE {failed}
  /\ UNCHANGED <<paused, game_over, drop_interval, age>>

\* engine.py: TICK_RATE and SPEEDUP, and the least drop interval of
\* update_speed, in hundredths of a second
TICK_RATE == 50

SPEEDUP == 5

MinInterval == 10

\* Game(board): the fields of a new Game; no tick has passed
NewGame ==
  /\ paused = FALSE
  /\ game_over = FALSE
  /\ drop_interval = TICK_RATE
  /\ age = 0

\* Board.__post_init__
Init ==
  /\ grid = EmptyGrid
  /\ current = None
  /\ next_piece \in TETROMINOES
  /\ score = 0
  /\ level = 1
  /\ lines_cleared = 0
  /\ locks = 0
  /\ ncalls = 0
  /\ last = Call("init", 0, 0, FALSE, None, 0)
  /\ failed = NoFailure
  /\ NewGame

SpawnPiece(log) ==
  \E drawn \in TETROMINOES :
    LET r == spawn_piece(Board, drawn)
    IN  Becomes(r.board, Call("spawn_piece", 0, 0, r.ret, None, 0), log)

Move(log) ==
  \E dx \in DX, dy \in DY :
    LET r == move(Board, dx, dy)
    IN  Becomes(r.board, Call("move", dx, dy, r.ret, None, 0), log)

Rotate(log) ==
  \E delta \in DELTA :
    LET r == rotate(Board, delta)
    IN  Becomes(r.board, Call("rotate", delta, 0, r.ret, None, 0), log)

HardDrop(log) ==
  LET r == hard_drop(Board)
  IN  Becomes(r.board, Call("hard_drop", 0, 0, FALSE, None, r.calls), log)

LockPiece(log) ==
  Becomes(lock_piece(Board), Call("lock_piece", 0, 0, FALSE, None, 0), log)

GhostPiece(log) ==
  Becomes(Board, Call("ghost_piece", 0, 0, FALSE, ghost_piece(Board), 0), log)

ClearLines(log) ==
  LET r == clear_lines(Board)
  IN  Becomes(r.board, [Call("clear_lines", 0, 0, FALSE, None, 0) EXCEPT !.cleared = r.ret],
              log)

AsRows(log) ==
  Becomes(Board, [Call("as_rows", 0, 0, FALSE, None, 0) EXCEPT !.rows = as_rows(Board)],
          log)

Next ==
  \/ SpawnPiece("calls")
  \/ Move("calls")
  \/ Rotate("calls")
  \/ HardDrop("calls")
  \/ LockPiece("calls")
  \/ GhostPiece("calls")

Spec == Init /\ [][Next]_vars

NextArgs ==
  \/ SpawnPiece("args")
  \/ Move("args")
  \/ Rotate("args")
  \/ HardDrop("args")
  \/ LockPiece("args")
  \/ GhostPiece("args")

SpecArgs == Init /\ [][NextArgs]_vars

NextRetry ==
  \/ SpawnPiece("retries")
  \/ Move("retries")
  \/ Rotate("retries")
  \/ HardDrop("retries")
  \/ LockPiece("retries")
  \/ GhostPiece("retries")

SpecRetry == Init /\ [][NextRetry]_vars

(* ----------------------------------------------------------------------- *)
(* A Board in the middle of play, and one call made on it.  The grid, the   *)
(* piece and the counters are plain fields of Board (test_board.py writes   *)
(* the grid row directly before it locks a piece); the boards taken here    *)
(* are stacks around a well: empty rows above rows that are filled but for  *)
(* the well column, or but for the well column and the one right of it.  No *)
(* row is full, the piece (if any) is in a valid position, and the counters *)
(* are those of a game in which every clear so far was of a single row.     *)
(* ----------------------------------------------------------------------- *)

\* the rows of a stack around the well at column g (0-based)
WellRows(g) ==
  { EmptyRow,
    [x \in 1 .. width |-> IF x - 1 = g THEN 0 ELSE 1],
    [x \in 1 .. width |-> IF x - 1 \in {g, g + 1} THEN 0 ELSE 1] }

\* the stacks: no empty row lies below a row that holds cells
StartGrids ==
  UNION { { s \in [1 .. height -> WellRows(g)] :
              \A y \in 1 .. height - 1 : s[y] # EmptyRow => s[y + 1] # EmptyRow } :
          g \in 0 .. width - 1 }

\* the lines cleared so far: two short of level 2, two short of level 3
StartLines == {8, 18}

\* the tetromino drawn for the next spawn
StartNext == {"I", "O"}

\* the score after n clears of a single row each: 100 x level apiece
StartScore(n) == IF n <= 10 THEN 100 * n ELSE 1000 + 200 * (n - 10)

\* the pieces that are in a valid position over the grid g
ValidPieces(g) ==
  { p \in UNION { [tetromino : {t}, rotation : 0 .. Len(Rotations[t]) - 1,
                   x : -1 .. width - 1, y : -1 .. height - 1] : t \in TETROMINOES } :
      is_valid_position([grid |-> g], p) }

InitStart ==
  /\ grid \in StartGrids
  /\ current \in {None} \cup ValidPieces(grid)
  /\ next_piece \in StartNext
  /\ lines_cleared \in StartLines
  /\ score = StartScore(lines_cleared)
  /\ level = (lines_cleared \div 10) + 1
  /\ locks = 0
  /\ ncalls = 0
  /\ last = Call("init", 0, 0, FALSE, None, 0)
  /\ failed = NoFailure
  /\ NewGame

NextStart ==
  \/ SpawnPiece("once")
  \/ Move("once")
  \/ Rotate("once")
  \/ HardDrop("once")
  \/ LockPiece("once")
  \/ ClearLines("once")
  \/ GhostPiece("once")
  \/ AsRows("once")

SpecStart == InitStart /\ [][NextStart]_vars

(* ----------------------------------------------------------------------- *)
(* clear_lines called on a grid of any kind, as lock_piece calls it after   *)
(* writing the cells of the piece (full rows present) and as a caller may   *)
(* at any time.  The rows taken are the empty row, the full row, the rows   *)
(* with exactly one filled cell and the rows with exactly one empty cell.   *)
(* ----------------------------------------------------------------------- *)
AnyRows ==
  { EmptyRow, [x \in 1 .. width |-> 1] }
    \cup { [x \in 1 .. width |-> IF x = c THEN 1 ELSE 0] : c \in 1 .. width }
    \cup { [x \in 1 .. width |-> IF x = c THEN 0 ELSE 1] : c \in 1 .. width }

InitGrids ==
  /\ grid \in [1 .. height -> AnyRows]
  /\ current = None
  /\ next_piece \in StartNext
  /\ score = 0
  /\ level = 1
  /\ lines_cleared = 0
  /\ locks = 0
  /\ ncalls = 0
  /\ last = Call("init", 0, 0, FALSE, None, 0)
  /\ failed = NoFailure
  /\ NewGame

NextGrids == ClearLines("once")

SpecGrids == InitGrids /\ [][NextGrids]_vars

(* ----------------------------------------------------------------------- *)
(* engine.py: the Game and its loop.  run() builds Game(Board()), spawns    *)
(* the first piece and then calls handle_input and update_game in turn,     *)
(* forever.  A Game value is the record of its fields; the keys are the     *)
(* ones handle_input tells apart ("none": getch returned -1 or a key that   *)
(* is bound to nothing).  Whether the drop interval has elapsed when        *)
(* update_game is called is the clock's choice.                             *)
(* ----------------------------------------------------------------------- *)
KEYS == {"q", "p", "LEFT", "RIGHT", "DOWN", "UP", "SPACE", "none"}

\* the Game as a value
Game ==
  [board |-> Board, paused |-> paused, game_over |-> game_over,
   drop_interval |-> drop_interval]

\* Game.update_speed(): the new drop interval
update_speed(g) ==
  LET slowed == TICK_RATE - SPEEDUP * (g.board.level - 1)
  IN  IF slowed > MinInterval THEN slowed ELSE MinInterval

\* handle_input testing the pause and game-over flags after the keys that
\* act on the board
handle_input_flags_last(g, key) ==
  IF key = "none" THEN g
  ELSE IF key = "q" THEN [g EXCEPT !.game_over = TRUE]
  ELSE IF key = "p" THEN [g EXCEPT !.paused = ~g.paused]
  ELSE IF key = "LEFT" THEN [g EXCEPT !.board = move(g.board, -1, 0).board]
  ELSE IF key = "RIGHT" THEN [g EXCEPT !.board = move(g.board, 1, 0).board]
  ELSE IF key = "DOWN" THEN [g EXCEPT !.board = move(g.board, 0, 1).board]
  ELSE IF key = "UP" THEN [g EXCEPT !.board = rotate(g.board, 1).board]
  ELSE IF g.paused \/ g.game_over THEN g
  ELSE [g EXCEPT !.board = hard_drop(g.board).board]

\* handle_input(stdscr, game), with key the value of stdscr.getch()
handle_input(g, key) ==
  IF key = "none" THEN g
  ELSE IF key = "q" THEN [g EXCEPT !.game_over = TRUE]
  ELSE IF key = "p" THEN [g EXCEPT !.paused = ~g.paused]
  ELSE IF g.paused \/ g.game_over THEN g
  ELSE IF key = "LEFT" THEN [g EXCEPT !.board = move(g.board, -1, 0).board]
  ELSE IF key = "RIGHT" THEN [g EXCEPT !.board = move(g.board, 1, 0).board]
  ELSE IF key = "DOWN" THEN [g EXCEPT !.board = move(g.board, 0, 1).board]
  ELSE IF key = "UP" THEN [g EXCEPT !.board = rotate(g.board, 1).board]
  ELSE [g EXCEPT !.board = hard_drop(g.board).board]

\* update_game spawning only when the failed move has left no piece, and
\* so not in the tick in which the piece was locked
update_game_spawn_next_tick(g, elapsed, drawn) ==
  IF g.paused \/ g.game_over \/ ~elapsed
  THEN [game |-> g, fired |-> FALSE, moved |-> FALSE, spawns |-> 0]
  ELSE
    LET m == move(g.board, 0, 1)
        s == spawn_piece(m.board, drawn)
        g1 == IF m.ret THEN [g EXCEPT !.board = m.board]
              ELSE IF g.board.current # None THEN [g EXCEPT !.board = m.board]
              ELSE IF s.ret THEN [g EXCEPT !.board = s.board]
              ELSE [g EXCEPT !.board = s.board, !.game_over = TRUE]
    IN  [game |-> [g1 EXCEPT !.drop_interval = update_speed(g1)],
         fired |-> TRUE, moved |-> m.ret,
         spawns |-> IF m.ret \/ g.board.current # None THEN 0 ELSE 1]

\* update_game(game), with elapsed telling whether now - last_tick has
\* reached drop_interval and drawn the tetromino random.choice returns if
\* spawn_piece is called: the Game afterwards, whether the tick fired, what
\* move(0, 1) returned and how many times spawn_piece was called
update_game(g, elapsed, drawn) ==
  IF g.paused \/ g.game_over \/ ~elapsed
  THEN [game |-> g, fired |-> FALSE, moved |-> FALSE, spawns |-> 0]
  ELSE
    LET m == move(g.board, 0, 1)
        s == spawn_piece(m.board, drawn)
        g1 == IF m.ret THEN [g EXCEPT !.board = m.board]
              ELSE IF s.ret THEN [g EXCEPT !.board = s.board]
              ELSE [g EXCEPT !.board = s.board, !.game_over = TRUE]
    IN  [game |-> [g1 EXCEPT !.drop_interval = update_speed(g1)],
         fired |-> TRUE, moved |-> m.ret, spawns |-> IF m.ret THEN 0 ELSE 1]

\* the step leaves the Game as g, having made the call c, in which the
\* current piece was locked or not and a tick has moved it down or not; the
\* age of the piece is 0 when it is new or absent and grows by one in a tick
\* that moves it
GameBecomes(g, c, locked, moved_by_tick) ==
  /\ grid' = g.board.grid
  /\ current' = g.board.current
  /\ next_piece' = g.board.next_piece
  /\ score' = g.board.score
  /\ level' = g.board.level
  /\ lines_cleared' = g.board.lines_cleared
  /\ paused' = g.paused
  /\ game_over' = g.game_over
  /\ drop_interval' = g.drop_interval
  /\ locks' = IF locked THEN locks + 1 ELSE locks
  /\ age' = IF g.board.current = None \/ locked THEN 0
            ELSE IF moved_by_tick THEN age + 1
            ELSE age
  /\ last' = [c EXCEPT !.active = (current # None)]
  /\ failed' = NoFailure

\* the step leaves the Game as g, having made a call of update_game that
\* returned at once
GameReturns(g) ==
  /\ grid' = g.board.grid
  /\ current' = g.board.current
  /\ next_piece' = g.board.next_piece
  /\ score' = g.board.score
  /\ level' = g.board.level
  /\ lines_cleared' = g.board.lines_cleared
  /\ paused' = g.paused
  /\ game_over' = g.game_over
  /\ drop_interval' = g.drop_interval
  /\ UNCHANGED <<locks, age, last, failed>>

\* the tetrominoes the random source of the game's Board returns
\* (Board(random=...) takes the source as an argument)
GameDraws == {"I", "O", "T"}

\* run(): Game(Board()) with the first piece spawned
InitGame ==
  /\ \E taken \in GameDraws :
       /\ is_valid_position([grid |-> EmptyGrid], spawn_position(taken))
       /\ current = spawn_position(taken)
  /\ grid = EmptyGrid
  /\ next_piece \in GameDraws
  /\ score = 0
  /\ level = 1
  /\ lines_cleared = 0
  /\ locks = 0
  /\ ncalls = 0
  /\ last = Call("spawn_piece", 0, 0, TRUE, None, 0)
  /\ failed = NoFailure
  /\ NewGame

\* one call of handle_input; ncalls counts the keys read
HandleInput ==
  \E key \in KEYS :
    \E g \in {handle_input(Game, key)} :
        /\ ncalls < MaxInputs
        /\ ncalls' = ncalls + 1
        /\ GameBecomes(g, [Call("handle_input", 0, 0, FALSE, None, 0) EXCEPT !.key = key],
                       current # None /\ g.board.current = None, FALSE)

\* the values random.choice may return in a call of update_game: any
\* tetromino of the game's random source if the call reaches spawn_piece;
\* none is drawn otherwise
Draws(elapsed) ==
  IF update_game(Game, elapsed, next_piece).spawns > 0 THEN GameDraws ELSE {next_piece}

\* one call of update_game in which the drop interval has elapsed; the
\* game is followed until MaxPieces pieces are locked and the next spawned
Tick ==
  \E drawn \in Draws(TRUE) :
    \E r \in {update_game(Game, TRUE, drawn)} :
        /\ locks < MaxPieces \/ current = None
        /\ ncalls' = ncalls
        /\ IF r.fired
           THEN GameBecomes(r.game, Call("update_game", 0, 0, r.moved, None, r.spawns),
                            current # None /\ ~r.moved, r.moved)
           ELSE GameReturns(r.game)

\* one call of update_game before the drop interval has elapsed
Wait ==
  \E drawn \in Draws(FALSE) :
    \E r \in {update_game(Game, FALSE, drawn)} :
        /\ ncalls' = ncalls
        /\ GameReturns(r.game)

NextGame ==
  \/ HandleInput
  \/ Tick
  \/ Wait

SpecGame == InitGame /\ [][NextGame]_vars

\* a call of update_game with the interval elapsed changes the game exactly
\* when the game is neither paused nor over (it then moves the piece down,
\* locks it, spawns or ends the game): ENABLED <<Tick>>_vars, written as the
\* state predicate it amounts to
TickActs == ~paused /\ ~game_over /\ (locks < MaxPieces \/ current = None)

\* the clock goes on: a tick that acts on the game is not put off forever.
\* This is WF_vars(Tick), with its enabling condition written as TickActs
SpecGameFair == SpecGame /\ ([]<>(~TickActs) \/ []<><<Tick>>_vars)

(* ----------------------------------------------------------------------- *)
(* The claims.                                                              *)
(* ----------------------------------------------------------------------- *)

\* every cell of the piece p is inside the grid and on an unfilled grid cell
Free(p) ==
  \A c \in cells(p) :
    /\ 0 <= c[1] /\ c[1] < width
    /\ 0 <= c[2] /\ c[2] < height
    /\ grid[c[2] + 1][c[1] + 1] = 0

\* the step is a call of the method op
Calls(op) == last'.op = op

\* C1: in every reachable state, if current is present then every cell of
\* current is inside the grid and lies on an unfilled grid cell.
C1_CurrentIsValid == current # None => Free(current)

\* a piece that a move has shifted, over a grid that holds locked cells
C1_Witness ==
  /\ current # None
  /\ grid # EmptyGrid
  /\ last.op \in {"move", "rotate"}
  /\ last.ret

\* C2 as claimed: whenever spawn_piece is called and the spawn position of
\* the tetromino it takes is obstructed, it returns False and current is
\* absent afterwards, also when a piece was active.
C2_FailedSpawnLeavesNoPiece ==
  [][(Calls("spawn_piece") /\ ~Free(spawn_position(next_piece)))
       => (~last'.ret /\ current' = None)]_vars

\* C2 amended: whenever spawn_piece is called and the spawn position of the
\* tetromino it takes is obstructed, it returns False and leaves current as
\* it was: absent if no piece was active, the active piece otherwise; the
\* grid and the counters are unchanged.
C2_FailedSpawnKeepsCurrent ==
  [][(Calls("spawn_piece") /\ ~Free(spawn_position(next_piece)))
       => /\ ~last'.ret
          /\ current' = current
          /\ grid' = grid
          /\ <<score', level', lines_cleared'>> = <<score, level, lines_cleared>>]_vars

\* spawn_piece has returned False while a piece was active, and it still is
C2_Witness ==
  /\ last.op = "spawn_piece"
  /\ ~last.ret
  /\ last.active
  /\ current # None

\* C3 as claimed: once spawn_piece has returned False, every further
\* spawn_piece call made while the grid is unchanged returns False too.
C3_RetryAlwaysFails ==
  [][(failed # NoFailure /\ Calls("spawn_piece")) => ~last'.ret]_vars

\* C3 amended: once spawn_piece has returned False for a tetromino, every
\* further spawn_piece call made while the grid is unchanged that takes the
\* same tetromino returns False too.
C3_RetryOfSameTetrominoFails ==
  [][(failed # NoFailure /\ next_piece = failed.tetromino /\ Calls("spawn_piece"))
       => ~last'.ret]_vars

\* spawn_piece has failed for a tetromino, has taken it again, and failed
C3_Witness ==
  /\ failed.retried
  /\ last.op = "spawn_piece"
  /\ ~last.ret

\* the fields of the Board other than current are unchanged by the step
RestUnchanged ==
  /\ grid' = grid
  /\ next_piece' = next_piece
  /\ <<score', level', lines_cleared'>> = <<score, level, lines_cleared>>

\* C4: move(dx, dy) with a current piece has exactly three outcomes: the
\* shifted position is valid, current becomes the shifted piece, True is
\* returned and the rest of the Board is unchanged; it is invalid and dy > 0,
\* the piece is locked (current becomes absent) and False is returned; it is
\* invalid and dy <= 0, False is returned and the Board is unchanged.
C4_MoveOutcomes ==
  [][(Calls("move") /\ current # None) =>
       LET shifted == [current EXCEPT !.x = current.x + last'.dx,
                                      !.y = current.y + last'.dy]
       IN  IF Free(shifted)
           THEN last'.ret /\ current' = shifted /\ RestUnchanged
           ELSE IF last'.dy > 0
                THEN ~last'.ret /\ current' = None /\ locks' = locks + 1
                ELSE ~last'.ret /\ current' = current /\ RestUnchanged]_vars

\* a move down was blocked over a grid with locked cells and locked the piece
C4_Witness ==
  /\ last.op = "move"
  /\ last.active
  /\ last.dy > 0
  /\ ~last.ret
  /\ current = None
  /\ locks = 2

\* C5: whenever a move(dx, dy) call locks the current piece, that piece had
\* landed: before the call, the piece shifted down by one cell, (0, 1), was
\* not a valid position; for every dx and every dy > 0.
C5_LockOnlyWhenLanded ==
  [][(Calls("move") /\ current # None /\ current' = None)
       => ~Free([current EXCEPT !.y = current.y + 1])]_vars

\* C6: rotate(delta) with a current piece either adopts the rotated piece
\* and returns True, changing only current's rotation index (by delta,
\* modulo the tetromino's number of rotations; same tetromino, x and y; the
\* rest of the Board unchanged), or returns False and leaves the whole Board
\* unchanged; it never locks the piece and never tries another position.
C6_RotateFrame ==
  [][(Calls("rotate") /\ current # None) =>
       \/ /\ last'.ret
          /\ current' = [current EXCEPT !.rotation =
                           (current.rotation + last'.dx) % Len(Rotations[current.tetromino])]
          /\ RestUnchanged
          /\ locks' = locks
       \/ /\ ~last'.ret
          /\ current' = current
          /\ RestUnchanged
          /\ locks' = locks]_vars

\* a rotation of the active piece was rejected
C6_Witness ==
  /\ last.op = "rotate"
  /\ last.active
  /\ ~last.ret
  /\ current # None

\* C7: when current is absent, move, rotate, hard_drop and lock_piece are
\* no-ops: they leave grid, current, next_piece, score, level and
\* lines_cleared unchanged, move and rotate return False, and hard_drop
\* called again changes nothing again (it is idempotent).
C7_NoPieceNoOp ==
  [][(current = None /\ (\/ Calls("move") \/ Calls("rotate")
                         \/ Calls("hard_drop") \/ Calls("lock_piece")))
       => /\ BoardNext = Board
          /\ locks' = locks
          /\ (last'.op \in {"move", "rotate"} => ~last'.ret)
          /\ (last'.op = "hard_drop" => last'.calls = 0)]_vars

\* one of the four methods was called with no piece active, pieces locked
C7_Witness ==
  /\ last.op \in {"move", "rotate", "hard_drop", "lock_piece"}
  /\ ~last.active
  /\ current = None
  /\ grid # EmptyGrid

\* the number of cells the current piece can move down: every shift by
\* 1 .. k cells is a valid position and the shift by k + 1 cells is not
Drop ==
  CHOOSE k \in 0 .. height :
    /\ \A j \in 1 .. k : Free([current EXCEPT !.y = current.y + j])
    /\ ~Free([current EXCEPT !.y = current.y + k + 1])

\* C8: from any state with a current piece, the calls of move(0, 1) that
\* hard_drop makes return True as many times as the piece can move down and
\* then False once, at which point current is absent; the loop ends after at
\* most height calls.
C8_HardDropCalls ==
  [][(Calls("hard_drop") /\ current # None)
       => /\ current' = None
          /\ locks' = locks + 1
          /\ last'.calls = Drop + 1
          /\ last'.calls <= height]_vars

\* a hard drop that took height calls of move, the most there can be
C8_Witness ==
  /\ last.op = "hard_drop"
  /\ last.active
  /\ last.calls = height
  /\ current = None

\* C9: for every state with a current piece, the Board after hard_drop() is
\* the Board obtained by replacing current with ghost_piece(), computed
\* before the call, and then calling lock_piece().
C9_HardDropIsGhostThenLock ==
  [][(Calls("hard_drop") /\ current # None)
       => BoardNext = lock_piece([Board EXCEPT !.current = ghost_piece(Board)])]_vars

\* a hard drop that moved the piece down onto locked cells and cleared a row
C9_Witness ==
  /\ last.op = "hard_drop"
  /\ last.active
  /\ last.calls > 1
  /\ locks = 2
  /\ lines_cleared > 0

\* C10: ghost_piece() is absent iff current is absent; when present it has
\* the tetromino, rotation and x of current, y >= current.y, is a valid
\* position and the position one cell further down is not; computing it
\* leaves the Board unchanged.
C10_GhostPiece ==
  [][Calls("ghost_piece")
       => LET ghost == last'.piece
          IN  /\ BoardNext = Board
              /\ locks' = locks
              /\ (ghost = None) <=> (current = None)
              /\ current # None
                   => /\ ghost.tetromino = current.tetromino
                      /\ ghost.rotation = current.rotation
                      /\ ghost.x = current.x
                      /\ ghost.y >= current.y
                      /\ Free(ghost)
                      /\ ~Free([ghost EXCEPT !.y = ghost.y + 1])]_vars

\* the ghost of a piece over locked cells, two or more cells below the piece
C10_Witness ==
  /\ last.op = "ghost_piece"
  /\ current # None
  /\ grid # EmptyGrid
  /\ last.piece.y >= current.y + 2

\* the number of rows that are full once the cells of the piece p are
\* written into the grid
FullRowsWith(p) ==
  Cardinality({ y \in 1 .. height :
                  \A x \in 1 .. width :
                    grid[y][x] # 0 \/ <<x - 1, y - 1>> \in cells(p) })

\* where the step locks the current piece: where it is, or, in a hard drop,
\* as far down as it can move
LockedAt ==
  IF last'.op = "hard_drop" THEN [current EXCEPT !.y = current.y + Drop] ELSE current

\* the step locks the current piece
Locks == current # None /\ locks' = locks + 1

\* the base points of a clear of k rows at once
Base == 1 :> 100 @@ 2 :> 300 @@ 3 :> 500 @@ 4 :> 800

\* C11: when a lock clears k >= 1 rows at once, lines_cleared increases by
\* exactly k and score by exactly base(k) times the level in effect before
\* the lock, base = {1: 100, 2: 300, 3: 500, 4: 800}; the level is recomputed
\* after the score has been added, from the new lines_cleared.  When a lock
\* clears no row, score, level and lines_cleared are unchanged.
C11_LockScores ==
  [][Locks =>
       LET k == FullRowsWith(LockedAt)
       IN  IF k >= 1
           THEN /\ lines_cleared' = lines_cleared + k
                /\ score' = score + Base[k] * level
                /\ level' = (lines_cleared' \div 10) + 1
           ELSE <<score', level', lines_cleared'>> = <<score, level, lines_cleared>>]_vars

\* a lock at level 1 has cleared four rows at once, taking lines_cleared
\* from 8 to 12: 800 points were added and the level is 2 afterwards
C11_Witness ==
  /\ locks = 1
  /\ lines_cleared = 12
  /\ score = StartScore(8) + 800
  /\ level = 2

\* C12: in every reachable state, level = floor(lines_cleared / 10) + 1.
C12_LevelFromLines == level = (lines_cleared \div 10) + 1

\* a lock has taken lines_cleared from 8 to exactly 10, and the level to 2
C12_Witness ==
  /\ locks = 1
  /\ lines_cleared = 10
  /\ level = 2

\* C13: across every single operation (spawn_piece, move, rotate, hard_drop,
\* lock_piece, clear_lines, ghost_piece, as_rows), score, level and
\* lines_cleared never decrease.
C13_CountersNeverDecrease ==
  [][/\ score' >= score
     /\ level' >= level
     /\ lines_cleared' >= lines_cleared]_vars

\* a hard drop has raised the three counters: three rows cleared at level 2,
\* taking lines_cleared from 18 to 21 and the level to 3
C13_Witness ==
  /\ last.op = "hard_drop"
  /\ lines_cleared = 21
  /\ score = StartScore(18) + 1000
  /\ level = 3

\* every cell of the row is filled
Full(row) == \A x \in 1 .. width : row[x] = 1

\* C14: clear_lines on any grid returns the number c of fully filled rows
\* and leaves a grid of the same height and width whose top c rows are
\* entirely empty and whose remaining height - c rows are exactly the
\* previously non-full rows, unchanged and in their original top-to-bottom
\* order.
C14_ClearLines ==
  [][Calls("clear_lines") =>
       LET c == Cardinality({ y \in 1 .. height : Full(grid[y]) })
           \* the place of the non-full row y among the non-full rows
           place(y) == Cardinality({ z \in 1 .. y : ~Full(grid[z]) })
       IN  /\ last'.cleared = c
           /\ Len(grid') = height
           /\ \A y \in 1 .. height : Len(grid'[y]) = width
           /\ \A y \in 1 .. c : \A x \in 1 .. width : grid'[y][x] = 0
           /\ \A y \in 1 .. height :
                ~Full(grid[y]) => grid'[c + place(y)] = grid[y]]_vars

\* clear_lines has removed two rows and left two different rows that hold
\* cells at the bottom
C14_Witness ==
  /\ last.op = "clear_lines"
  /\ last.cleared = 2
  /\ grid[height] # EmptyRow
  /\ grid[height - 1] # EmptyRow
  /\ grid[height] # grid[height - 1]

\* the cells of the piece p, none if it is absent
CellsOf(p) ==
  IF p = None THEN {}
  ELSE LET shape == Rotations[p.tetromino][p.rotation + 1]
       IN  { <<p.x + c[1] - 1, p.y + c[2] - 1>> :
               c \in { d \in (1 .. Len(shape[1])) \X (1 .. Len(shape)) :
                         shape[d[2]][d[1]] = 1 } }

\* the current piece as far down as it can move, absent if current is
Landed == IF current = None THEN None ELSE [current EXCEPT !.y = current.y + Drop]

\* C15: in every reachable state as_rows() returns a height x width
\* snapshot in which a cell is 1 iff the grid cell is locked, 2 iff it is a
\* cell of current, 3 iff it is a cell of the ghost piece that is neither
\* locked nor a cell of current, and 0 otherwise; no locked cell is shown as
\* 2 or 3, and the call leaves the Board unchanged.
C15_AsRows ==
  [][Calls("as_rows") =>
       LET rows == last'.rows
       IN  /\ Len(rows) = height
           /\ \A y \in 1 .. height : Len(rows[y]) = width
           /\ \A y \in 1 .. height, x \in 1 .. width :
                LET c == <<x - 1, y - 1>>
                IN  /\ rows[y][x] \in 0 .. 3
                    /\ rows[y][x] = 1 <=> grid[y][x] = 1
                    /\ rows[y][x] = 2 <=> c \in CellsOf(current)
                    /\ rows[y][x] = 3 <=> /\ c \in CellsOf(Landed)
                                          /\ grid[y][x] # 1
                                          /\ c \notin CellsOf(current)
           /\ BoardNext = Board
           /\ locks' = locks]_vars

\* a snapshot that shows locked cells, the piece, and the ghost one or two
\* cells below the piece, so that some of the ghost's cells are the piece's
C15_Witness ==
  /\ last.op = "as_rows"
  /\ current # None
  /\ grid # EmptyGrid
  /\ Drop \in {1, 2}
  /\ CellsOf(Landed) \cap CellsOf(current) # {}
  /\ \E y \in 1 .. height, x \in 1 .. width : last.rows[y][x] = 3

\* C18: in every state reachable from a freshly constructed Board by the
\* public operations, no grid row is fully filled: a full row created by a
\* lock is removed within that same lock.
C18_NoFullRow == \A y \in 1 .. height : ~Full(grid[y])

\* a lock has completed a row and removed it, and locked cells remain
C18_Witness ==
  /\ lines_cleared > 0
  /\ grid # EmptyGrid
  /\ current = None

\* the number of filled cells of the grid g
Filled(g) ==
  Cardinality({ c \in (1 .. width) \X (1 .. height) : g[c[2]][c[1]] # 0 })

\* C19: cell conservation.  In every state reachable from an empty Board
\* the number of filled grid cells equals 4 x (pieces locked so far) -
\* width x lines_cleared; each lock writes exactly four previously empty
\* in-bounds cells and each cleared line removes exactly width filled
\* cells, and no other operation changes the grid.  (The equation is stated
\* of the empty Board and of the state after every lock; a step that is not
\* a lock changes none of its terms.)
C19_CellConservation ==
  [][/\ ncalls = 0 => Filled(grid) = 4 * locks - width * lines_cleared
     /\ ~Locks => /\ grid' = grid
                  /\ locks' = locks
                  /\ lines_cleared' = lines_cleared
     /\ Locks => /\ \A written \in {CellsOf(LockedAt)} :
                      /\ Cardinality(written) = 4
                      /\ \A c \in written :
                           /\ c[1] \in 0 .. width - 1
                           /\ c[2] \in 0 .. height - 1
                           /\ grid[c[2] + 1][c[1] + 1] = 0
                 /\ Filled(grid') = Filled(grid) + 4
                                      - width * (lines_cleared' - lines_cleared)
                 /\ Filled(grid') = 4 * locks' - width * lines_cleared']_vars

\* two pieces locked, a line cleared, cells left in the grid
C19_Witness ==
  /\ locks = 2
  /\ lines_cleared = 1
  /\ Filled(grid) = 8 - width

C16_FrozenWhenOverOrPaused ==
  [][/\ game_over => (game_over' /\ BoardNext = Board /\ locks' = locks)
     /\ paused => (BoardNext = Board /\ locks' = locks)]_vars

\* the game was ended while a piece was active, and a key that moves,
\* rotates or drops the piece has been pressed since
C16_Witness ==
  /\ game_over
  /\ current # None
  /\ last.op = "handle_input"
  /\ last.key \in {"LEFT", "RIGHT", "DOWN", "UP", "SPACE"}

\* the step is a call of update_game that acted: the only steps that change
\* the state without reading a key
Ticks == ncalls' = ncalls

\* C17: in the game loop, while the game is neither paused nor over and
\* ticks keep firing, every active piece is eventually locked, after at
\* most height ticks, whatever inputs are interleaved between ticks; and a
\* tick whose move(0, 1) fails calls spawn_piece in that same tick, so after
\* every such tick either a current piece is present or game_over is true.
\* (The game is followed until MaxPieces pieces are locked.)
C17_TicksLockAndSpawn ==
  /\ [][Ticks =>
          /\ current # None =>
               \/ /\ last'.ret
                  /\ current' = [current EXCEPT !.y = current.y + 1]
                  /\ age' = age + 1
                  /\ age' < height
               \/ /\ ~last'.ret
                  /\ locks' = locks + 1
                  /\ age + 1 <= height
          /\ ~last'.ret => /\ last'.calls = 1
                           /\ current' # None \/ game_over']_vars
  /\ \A n \in 0 .. MaxPieces - 1 :
       (locks = n /\ current # None) ~> (locks > n \/ paused \/ game_over)

\* after keys were pressed, a tick whose move(0, 1) failed has locked the
\* first piece without clearing a row, and has spawned the next piece in
\* the same call
C17_Witness ==
  /\ last.op = "update_game"
  /\ ~last.ret
  /\ last.active
  /\ last.calls = 1
  /\ locks = 1
  /\ ncalls > 0
  /\ lines_cleared = 0
  /\ grid # EmptyGrid
  /\ current # None
  /\ age = 0
  /\ ~game_over

=============================================================================
